---------------------------- MODULE Spec2Model ----------------------------
(***************************************************************************)
(* Model of src/error.rs of grr-plugin: the unified Error enum, its        *)
(* Display / Debug renderings, its From conversions, its conversion into   *)
(* an RPC Status, and the two escalation macros log_and_escalate! and      *)
(* log_and_escalate_status!.                                               *)
(*                                                                         *)
(* A Rust string is modelled as a sequence of tokens (words and            *)
(* punctuation); the empty string is << >> and concatenation is \o.  The   *)
(* double quote and the backslash are tokens of their own, so that the     *)
(* escaping done by the Debug formatting of a string can be followed.      *)
(*                                                                         *)
(* The macros are exercised by a chain of nested functions: function i     *)
(* guards its call of function i + 1 with macros[i], and the innermost     *)
(* function guards a fallible leaf operation.  Each function has the shape *)
(*     let x = macro!(expr);  <statement after>;  Ok(x)                    *)
(***************************************************************************)
EXTENDS Naturals, Sequences, FiniteSets, TLC

VARIABLES
    macros,       \* macros[i]: the macro used by function i (1 = outermost)
    tokioDerive,  \* whether the linked tokio derives Debug for SendError<T>
    fr,           \* fr[i]: the activation of function i
    log,          \* the logging sink: the entries log::error! received
    out,          \* the result the caller of function 1 received
    rendered,     \* the top-level caller's Display rendering of the error
    status        \* the top-level caller's conversion of the error into Status

vars == <<macros, tokioDerive, fr, log, out, rendered, status>>

(***************************************************************************)
(* Bounds of the model.                                                    *)
(***************************************************************************)
MaxDepth == 3
MaxPayload == 2
MaxServiceId == 42

(***************************************************************************)
(* Values.                                                                 *)
(***************************************************************************)
Quote == "\""
Backslash == "\\"

\* A failure value of one of the five external domains.
Ext(dom, variant, ty, payload) ==
    [kind |-> "ext", dom |-> dom, variant |-> variant, ty |-> ty,
     payload |-> payload]

NoExt == Ext("none", "", "", 0)

PayloadTypes == {"u32", "ServiceRequest"}

IoErrors == {Ext("io", v, "", 0) : v \in {"NotFound", "PermissionDenied"}}
TonicErrors == {Ext("tonic", "Transport", "", 0)}
AddrParseErrors == {Ext("addr", "Socket", "", 0)}
InvalidUris == {Ext("uri", "InvalidUriChar", "", 0)}
SendErrors == {Ext("send", "", t, p) : t \in PayloadTypes, p \in 1..MaxPayload}

ExtFailures ==
    IoErrors \cup TonicErrors \cup AddrParseErrors \cup InvalidUris
        \cup SendErrors

\* Sample payload strings, the empty string and one holding quotes included.
Strings ==
    { << >>, <<"disk", "full">>, <<"mpsc">>, <<"say", Quote, "hi", Quote>> }

ServiceIds == {0, MaxServiceId}

\* pub enum Error: the ten variants.
MkError(tag, id, s, e) == [kind |-> "error", tag |-> tag, id |-> id, s |-> s, e |-> e]

NoTCPPortAvailable == MkError("NoTCPPortAvailable", 0, << >>, NoExt)
GRPCHandshakeMagicCookieValueMismatch ==
    MkError("GRPCHandshakeMagicCookieValueMismatch", 0, << >>, NoExt)
ServiceIdDoesNotExist(id) == MkError("ServiceIdDoesNotExist", id, << >>, NoExt)
Io(e) == MkError("Io", 0, << >>, e)
Generic(s) == MkError("Generic", 0, s, NoExt)
TonicTransport(e) == MkError("TonicTransport", 0, << >>, e)
AddrParser(e) == MkError("AddrParser", 0, << >>, e)
Send(s) == MkError("Send", 0, s, NoExt)
InvalidUri(e) == MkError("InvalidUri", 0, << >>, e)
NetworkTypeUnknown(s) == MkError("NetworkTypeUnknown", 0, s, NoExt)

Variants ==
    {"NoTCPPortAvailable", "GRPCHandshakeMagicCookieValueMismatch",
     "ServiceIdDoesNotExist", "Io", "Generic", "TonicTransport", "AddrParser",
     "Send", "InvalidUri", "NetworkTypeUnknown"}

Errors ==
    {NoTCPPortAvailable, GRPCHandshakeMagicCookieValueMismatch}
        \cup {ServiceIdDoesNotExist(id) : id \in ServiceIds}
        \cup {Io(e) : e \in IoErrors}
        \cup {Generic(s) : s \in Strings}
        \cup {TonicTransport(e) : e \in TonicErrors}
        \cup {AddrParser(e) : e \in AddrParseErrors}
        \cup {Send(s) : s \in Strings}
        \cup {InvalidUri(e) : e \in InvalidUris}
        \cup {NetworkTypeUnknown(s) : s \in Strings}

\* tonic::Status
MkStatus(code, message) == [kind |-> "status", code |-> code, message |-> message]

\* Result<T, E>
Ok(v) == [tag |-> "Ok", val |-> v]
Err(e) == [tag |-> "Err", err |-> e]
NoResult == [tag |-> "None"]

(***************************************************************************)
(* Formatting.                                                             *)
(***************************************************************************)
RECURSIVE Escape(_)
\* The escaping of the Debug formatting of a string: a quote becomes \" and
\* a backslash becomes \\.
Escape(s) ==
    IF s = << >> THEN << >>
    ELSE (IF Head(s) \in {Quote, Backslash}
          THEN <<Backslash, Head(s)>> ELSE <<Head(s)>>) \o Escape(Tail(s))

\* {:?} of a String.
DebugStr(s) == <<Quote>> \o Escape(s) \o <<Quote>>

\* {:?} of a payload value of type ty.
DebugPayload(ty, p) ==
    IF ty = "u32" THEN <<ToString(p)>>
    ELSE <<ty, "{", "id:", ToString(p), "}">>

\* {:?} of an external failure value.
DebugExt(e) ==
    CASE e.dom = "io" -> <<"Kind", "(", e.variant, ")">>
      [] e.dom = "tonic" ->
            <<"tonic::transport::Error", "(", e.variant, ",", "..", ")">>
      [] e.dom = "addr" -> <<"AddrParseError", "(", e.variant, ")">>
      [] e.dom = "uri" -> <<"InvalidUri", "(", e.variant, ")">>
      [] e.dom = "send" ->
            IF tokioDerive
            THEN <<"SendError", "(">> \o DebugPayload(e.ty, e.payload) \o <<")">>
            ELSE <<"SendError", "{", "..", "}">>

\* {} of an external failure value.
DisplayExt(e) ==
    CASE e.dom = "io" ->
            IF e.variant = "NotFound" THEN <<"entity", "not", "found">>
            ELSE <<"permission", "denied">>
      [] e.dom = "tonic" -> <<"transport", "error">>
      [] e.dom = "addr" -> <<"invalid", "socket", "address", "syntax">>
      [] e.dom = "uri" -> <<"invalid", "uri", "character">>
      [] e.dom = "send" -> <<"channel", "closed">>

\* #[derive(Debug)] of Error.
DebugError(err) ==
    CASE err.tag \in {"NoTCPPortAvailable", "GRPCHandshakeMagicCookieValueMismatch"} ->
            <<err.tag>>
      [] err.tag = "ServiceIdDoesNotExist" -> <<err.tag, "(", ToString(err.id), ")">>
      [] err.tag \in {"Generic", "Send", "NetworkTypeUnknown"} ->
            <<err.tag, "(">> \o DebugStr(err.s) \o <<")">>
      [] err.tag \in {"Io", "TonicTransport", "AddrParser", "InvalidUri"} ->
            <<err.tag, "(">> \o DebugExt(err.e) \o <<")">>

\* The Send arm of fmt written as "{}", its label forgotten.
MutFmtSendNoLabel(s) == s

\* impl Display for Error, the Self::Send(s) arm.
FmtSend(s) == <<"Error", "sending", "on", "a", "mpsc", "channel:">> \o s

\* impl Display for Error
fmt(err) ==
    CASE err.tag = "NoTCPPortAvailable" ->
            <<"No", "ports", "were", "available", "to", "bind", "the",
              "plugin's", "gRPC", "server", "to.">>
      [] err.tag = "GRPCHandshakeMagicCookieValueMismatch" ->
            <<"This", "executable", "is", "meant", "to", "be", "a",
              "go-plugin", "to", "other", "processes.", "Do", "not", "run",
              "this", "directly.", "The", "Magic", "Handshake", "failed.">>
      [] err.tag = "ServiceIdDoesNotExist" ->
            <<"The", "requested", "ServiceId", ToString(err.id), "does", "not",
              "exist", "and", "timed", "out", "waiting", "for", "it.">>
      [] err.tag = "Generic" -> err.s
      [] err.tag = "Io" -> <<"Error", "with", "IO:">> \o DebugExt(err.e)
      [] err.tag = "TonicTransport" ->
            <<"Error", "with", "tonic", "(gRPC)", "transport:">> \o DebugExt(err.e)
      [] err.tag = "AddrParser" ->
            <<"Error", "parsing", "string", "into", "a", "network", "address:">>
                \o DebugExt(err.e)
      [] err.tag = "Send" -> FmtSend(err.s)
      [] err.tag = "InvalidUri" -> <<"Invalid", "Uri:">> \o DisplayExt(err.e)
      [] err.tag = "NetworkTypeUnknown" ->
            <<"Service", "endpoint", "type", "unknown:">> \o err.s

\* {:?} of a tonic::Status: the message field is printed when it is not empty.
DebugStatus(st) ==
    <<"Status", "{", "code:", st.code, ",">>
        \o (IF st.message = << >> THEN << >>
            ELSE <<"message:">> \o DebugStr(st.message) \o <<",">>)
        \o <<"source:", "None", "}">>

\* {:?} of whatever failure value an escalation macro is handed.
Debug(e) ==
    CASE e.kind = "ext" -> DebugExt(e)
      [] e.kind = "error" -> DebugError(e)
      [] e.kind = "status" -> DebugStatus(e)

\* tonic::Status::unknown(message)
StatusUnknown(message) == MkStatus("Unknown", message)

\* into with the Display rendering as the message.
MutIntoDisplay(err) == MkStatus("Unknown", fmt(err))

\* impl Into<Status> for Error
into(err) == StatusUnknown(DebugError(err))

(***************************************************************************)
(* The From conversions.                                                   *)
(***************************************************************************)
\* impl From<std::io::Error> for Error
FromIoError(e) == Io(e)

\* impl From<TonicError> for Error
FromTonicError(e) == TonicTransport(e)

\* impl From<std::net::AddrParseError> for Error
FromAddrParseError(e) == AddrParser(e)

\* std::any::type_name::<T>()
TypeName(ty) == <<ty>>

\* FromSendError with the un-sent payload formatted into the message.
MutFromSendErrorKeepsPayload(e) ==
    Send(<<"unable", "to", "send">> \o DebugPayload(e.ty, e.payload)
            \o <<"on", "a", "mpsc", "channel">>)

\* impl<T> From<SendError<T>> for Error
FromSendError(e) ==
    Send(<<"unable", "to", "send">> \o TypeName(e.ty)
            \o <<"on", "a", "mpsc", "channel">>)

\* FromInvalidUri converting by message instead of wrapping.
MutFromInvalidUriGeneric(e) == Generic(DisplayExt(e))

\* impl From<InvalidUri> for Error
FromInvalidUri(e) == InvalidUri(e)

\* Error::from(err) as the compiler resolves it: the impl of err's type, and
\* the reflexive impl<T> From<T> for T when err is an Error already.
ErrorFrom(e) ==
    CASE e.kind = "error" -> e
      [] e.kind = "ext" /\ e.dom = "io" -> FromIoError(e)
      [] e.kind = "ext" /\ e.dom = "tonic" -> FromTonicError(e)
      [] e.kind = "ext" /\ e.dom = "addr" -> FromAddrParseError(e)
      [] e.kind = "ext" /\ e.dom = "send" -> FromSendError(e)
      [] e.kind = "ext" /\ e.dom = "uri" -> FromInvalidUri(e)

(***************************************************************************)
(* The call sites: a chain of functions, each guarding one expression.     *)
(***************************************************************************)
\* The path of function i, as std::any::type_name reports it.
FnPath(i) == <<"grr_plugin", ":", ":", "handler", ToString(i)>>

\* type_name_of(f) for the fn f() {} that function!() declares inside
\* function i: the path of function i followed by "::f".
TypeNameOfF(i) == FnPath(i) \o <<":", ":", "f">>

\* macro_rules! function: &name[..name.len() - 3]
function(i) == SubSeq(TypeNameOfF(i), 1, Len(TypeNameOfF(i)) - 3)

\* file!() and line!() at the macro invocation in function i.
File == <<"src/lib.rs">>
Line(i) == <<ToString(i)>>

\* log::error!("{},({}:{}), {:?}", function!(), file!(), line!(), err)
LogError(i, err) ==
    [level |-> "error",
     text |-> function(i) \o <<",(">> \o File \o <<":">> \o Line(i) \o <<"),">>
                \o Debug(err)]

\* The type-correct programs: log_and_escalate! needs From<E> for Error, so
\* the callee of a function using it returns an Error too; a function using
\* log_and_escalate_status! may call either kind.
Chains(d) ==
    {m \in [1..d -> {"unified", "status"}] :
        \A i \in 1..(d - 1) : m[i] = "unified" => m[i + 1] = "unified"}

Statuses == {MkStatus("NotFound", << >>), MkStatus("Unknown", <<"oops">>)}

\* What the innermost guarded expression may evaluate to.  A Status has no
\* From conversion into Error, so it is a failure of log_and_escalate_status!
\* call sites only.
LeafResults(m) ==
    {Ok(v) : v \in 1..MaxPayload}
        \cup {Err(e) : e \in ExtFailures \cup Errors}
        \cup (IF m = "status" THEN {Err(st) : st \in Statuses} ELSE {})

Depth == Len(macros)

Idle == [pc |-> "idle", got |-> NoResult, x |-> 0, ranAfter |-> FALSE,
         ret |-> NoResult]

NotSet == [set |-> FALSE]

Init ==
    /\ macros \in UNION {Chains(d) : d \in 1..MaxDepth}
    /\ tokioDerive \in BOOLEAN
    /\ fr = [i \in 1..Len(macros) |->
                IF i = 1 THEN [Idle EXCEPT !.pc = "eval"] ELSE Idle]
    /\ log = << >>
    /\ out = NoResult
    /\ rendered = NotSet
    /\ status = NotSet

\* Function i returns r: its caller's guarded expression evaluates to r, and
\* the caller of function 1 receives r.
Return(f, i, r) ==
    /\ fr' = [j \in DOMAIN f |->
                IF j = i THEN [f[j] EXCEPT !.pc = "done", !.ret = r]
                ELSE IF j = i - 1 THEN [f[j] EXCEPT !.pc = "match", !.got = r]
                ELSE f[j]]
    /\ out' = IF i = 1 THEN r ELSE out

\* Function i evaluates its guarded expression, a call of function i + 1.
Call(i) ==
    /\ i < Depth
    /\ fr[i].pc = "eval"
    /\ fr' = [fr EXCEPT ![i].pc = "wait", ![i + 1].pc = "eval"]
    /\ UNCHANGED <<macros, tokioDerive, log, out, rendered, status>>

\* The innermost function evaluates its guarded expression.
Leaf(r) ==
    /\ fr[Depth].pc = "eval"
    /\ fr' = [fr EXCEPT ![Depth].pc = "match", ![Depth].got = r]
    /\ UNCHANGED <<macros, tokioDerive, log, out, rendered, status>>

\* The Err arm of log_and_escalate! without its return: the failure is logged
\* and the function goes on.
MutLogAndEscalateErrNoReturn(i) ==
    /\ macros[i] = "unified"
    /\ fr[i].pc = "match"
    /\ fr[i].got.tag = "Err"
    /\ log' = Append(log, LogError(i, fr[i].got.err))
    /\ fr' = [fr EXCEPT ![i].pc = "after"]
    /\ UNCHANGED <<macros, tokioDerive, out, rendered, status>>

\* The Err arm of log_and_escalate! logging a failure at its origin only: a
\* failure that is an Error already is returned without a log entry.
MutLogAndEscalateErrLogsOnce(i) ==
    /\ macros[i] = "unified"
    /\ fr[i].pc = "match"
    /\ fr[i].got.tag = "Err"
    /\ log' = IF fr[i].got.err.kind = "error" THEN log
              ELSE Append(log, LogError(i, fr[i].got.err))
    /\ Return(fr, i, Err(ErrorFrom(fr[i].got.err)))
    /\ UNCHANGED <<macros, tokioDerive, rendered, status>>

\* log_and_escalate!, the Err(err) arm.
LogAndEscalateErr(i) ==
    /\ macros[i] = "unified"
    /\ fr[i].pc = "match"
    /\ fr[i].got.tag = "Err"
    /\ log' = Append(log, LogError(i, fr[i].got.err))
    /\ Return(fr, i, Err(ErrorFrom(fr[i].got.err)))
    /\ UNCHANGED <<macros, tokioDerive, rendered, status>>

\* log_and_escalate!, the Ok(o) arm.
LogAndEscalateOk(i) ==
    /\ macros[i] = "unified"
    /\ fr[i].pc = "match"
    /\ fr[i].got.tag = "Ok"
    /\ fr' = [fr EXCEPT ![i].pc = "after", ![i].x = fr[i].got.val]
    /\ UNCHANGED <<macros, tokioDerive, log, out, rendered, status>>

\* The Err arm of log_and_escalate_status! converting the failure into the
\* unified Error first, where a From conversion exists.
MutLogAndEscalateStatusErrViaError(i) ==
    /\ macros[i] = "status"
    /\ fr[i].pc = "match"
    /\ fr[i].got.tag = "Err"
    /\ log' = Append(log, LogError(i, fr[i].got.err))
    /\ Return(fr, i,
              Err(IF fr[i].got.err.kind = "status"
                  THEN StatusUnknown(Debug(fr[i].got.err))
                  ELSE into(ErrorFrom(fr[i].got.err))))
    /\ UNCHANGED <<macros, tokioDerive, rendered, status>>

\* The Err arm of log_and_escalate_status! passing a failure that is a Status
\* already through unchanged.
MutLogAndEscalateStatusErrPassesStatus(i) ==
    /\ macros[i] = "status"
    /\ fr[i].pc = "match"
    /\ fr[i].got.tag = "Err"
    /\ log' = Append(log, LogError(i, fr[i].got.err))
    /\ Return(fr, i,
              Err(IF fr[i].got.err.kind = "status" THEN fr[i].got.err
                  ELSE StatusUnknown(Debug(fr[i].got.err))))
    /\ UNCHANGED <<macros, tokioDerive, rendered, status>>

\* log_and_escalate_status!, the Err(err) arm.
LogAndEscalateStatusErr(i) ==
    /\ macros[i] = "status"
    /\ fr[i].pc = "match"
    /\ fr[i].got.tag = "Err"
    /\ log' = Append(log, LogError(i, fr[i].got.err))
    /\ Return(fr, i, Err(StatusUnknown(Debug(fr[i].got.err))))
    /\ UNCHANGED <<macros, tokioDerive, rendered, status>>

\* The Ok arm of log_and_escalate_status! logging the outcome too.
MutLogAndEscalateStatusOkLogs(i) ==
    /\ macros[i] = "status"
    /\ fr[i].pc = "match"
    /\ fr[i].got.tag = "Ok"
    /\ log' = Append(log, LogError(i, NoTCPPortAvailable))
    /\ fr' = [fr EXCEPT ![i].pc = "after", ![i].x = fr[i].got.val]
    /\ UNCHANGED <<macros, tokioDerive, out, rendered, status>>

\* log_and_escalate_status!, the Ok(o) arm.
LogAndEscalateStatusOk(i) ==
    /\ macros[i] = "status"
    /\ fr[i].pc = "match"
    /\ fr[i].got.tag = "Ok"
    /\ fr' = [fr EXCEPT ![i].pc = "after", ![i].x = fr[i].got.val]
    /\ UNCHANGED <<macros, tokioDerive, log, out, rendered, status>>

\* The statement after the macro invocation, then the function's Ok(x).
Continue(i) ==
    /\ fr[i].pc = "after"
    /\ Return([fr EXCEPT ![i].ranAfter = TRUE], i, Ok(fr[i].x))
    /\ UNCHANGED <<macros, tokioDerive, log, rendered, status>>

\* The top-level caller renders the Error it received: format!("{}", err).
Render ==
    /\ out.tag = "Err"
    /\ out.err.kind = "error"
    /\ ~rendered.set
    /\ rendered' = [set |-> TRUE, text |-> fmt(out.err)]
    /\ UNCHANGED <<macros, tokioDerive, fr, log, out, status>>

\* The top-level caller converts the Error it received into a Status.
IntoStatus ==
    /\ out.tag = "Err"
    /\ out.err.kind = "error"
    /\ ~status.set
    /\ status' = [set |-> TRUE, st |-> into(out.err)]
    /\ UNCHANGED <<macros, tokioDerive, fr, log, out, rendered>>

Next ==
    \/ \E i \in 1..Depth : Call(i)
    \/ \E r \in LeafResults(macros[Depth]) : Leaf(r)
    \/ \E i \in 1..Depth : LogAndEscalateErr(i)
    \/ \E i \in 1..Depth : LogAndEscalateOk(i)
    \/ \E i \in 1..Depth : LogAndEscalateStatusErr(i)
    \/ \E i \in 1..Depth : LogAndEscalateStatusOk(i)
    \/ \E i \in 1..Depth : Continue(i)
    \/ Render
    \/ IntoStatus

Spec == Init /\ [][Next]_vars

(***************************************************************************)
(* Properties.                                                             *)
(***************************************************************************)
Contains(s, w) == \E k \in 1..Len(s) : s[k] = w

\* Whether a log entry names function i.
LoggedBy(entry, i) ==
    /\ Len(entry.text) >= Len(FnPath(i))
    /\ SubSeq(entry.text, 1, Len(FnPath(i))) = FnPath(i)

LogCount(i) == Cardinality({k \in 1..Len(log) : LoggedBy(log[k], i)})

Failed(i) == fr[i].got.tag = "Err"
Succeeded(i) == fr[i].got.tag = "Ok"
Done(i) == fr[i].pc = "done"
IsExt(i, dom) == Failed(i) /\ fr[i].got.err.kind = "ext" /\ fr[i].got.err.dom = dom

\* C1: a function that hands Err(e) to log_and_escalate! logs exactly one
\* entry, never runs the statement after the macro, and returns
\* Err(Error::from(e)); an address-parse failure returns AddrParser.
C1_EscalateReturnsConverted ==
    \A i \in 1..Depth :
        (macros[i] = "unified" /\ Failed(i)) =>
            /\ fr[i].pc \in {"match", "done"}
            /\ ~fr[i].ranAfter
            /\ fr[i].x = 0
            /\ Done(i) =>
                /\ LogCount(i) = 1
                /\ fr[i].ret.tag = "Err"
                /\ fr[i].ret.err.kind = "error"
                /\ fr[i].ret = Err(ErrorFrom(fr[i].got.err))
                /\ fr[i].got.err.kind = "error" => fr[i].ret.err = fr[i].got.err
                /\ IsExt(i, "addr") =>
                    /\ fr[i].ret.err.tag = "AddrParser"
                    /\ fr[i].ret.err.e = fr[i].got.err

C1_Witness ==
    \E i \in 1..Depth :
        /\ macros[i] = "unified"
        /\ IsExt(i, "addr")
        /\ Done(i)
        /\ LogCount(i) = 1

\* C2: a function that hands Ok(v) to either macro logs nothing, binds v
\* unchanged, runs the statement after the macro and does not return early.
C2_OkYieldsPayload ==
    \A i \in 1..Depth :
        (Succeeded(i) /\ fr[i].pc # "match") =>
            /\ fr[i].pc \in {"after", "done"}
            /\ LogCount(i) = 0
            /\ log = << >>
            /\ fr[i].x = fr[i].got.val
            /\ Done(i) => (fr[i].ranAfter /\ fr[i].ret = Ok(fr[i].got.val))

C2_Witness ==
    \E i, j \in 1..Depth :
        /\ macros[i] = "status"
        /\ macros[j] = "unified"
        /\ Succeeded(i) /\ Done(i) /\ fr[i].ranAfter
        /\ Succeeded(j) /\ Done(j) /\ fr[j].ranAfter
        /\ out = Ok(MaxPayload)

\* C3: a function that hands Err(e) to log_and_escalate_status! logs exactly
\* one entry and returns early a Status of code Unknown whose message is the
\* Debug rendering of e itself, not of the Error that e converts into.
C3_StatusIsDebugOfRawFailure ==
    \A i \in 1..Depth :
        (macros[i] = "status" /\ Failed(i)) =>
            /\ fr[i].pc \in {"match", "done"}
            /\ ~fr[i].ranAfter
            /\ Done(i) =>
                /\ LogCount(i) = 1
                /\ fr[i].ret.tag = "Err"
                /\ fr[i].ret.err.kind = "status"
                /\ fr[i].ret.err.code = "Unknown"
                /\ fr[i].got.err.kind = "ext" =>
                    /\ fr[i].ret.err.message = DebugExt(fr[i].got.err)
                    /\ fr[i].ret.err.message # DebugError(ErrorFrom(fr[i].got.err))
                /\ fr[i].got.err.kind = "error" =>
                    fr[i].ret.err.message = DebugError(fr[i].got.err)
                /\ fr[i].got.err.kind = "status" =>
                    fr[i].ret.err.message = DebugStatus(fr[i].got.err)

C3_Witness ==
    \E i \in 1..Depth :
        /\ macros[i] = "status"
        /\ IsExt(i, "io")
        /\ Done(i)
        /\ fr[i].ret.err.message = <<"Kind", "(", "NotFound", ")">>

\* C4: the Status an Error converts into has the code Unknown and the Debug
\* rendering of the Error, not its Display rendering, as message, whatever
\* the variant and the payload.
C4_IntoStatusUnknownDebug ==
    status.set =>
        /\ out.err.tag \in Variants
        /\ status.st.kind = "status"
        /\ status.st.code = "Unknown"
        /\ status.st.message = DebugError(out.err)
        /\ status.st.message # fmt(out.err)
        /\ status.st.message[1] = out.err.tag

C4_Witness ==
    /\ status.set
    /\ out.err = Generic(<<"disk", "full">>)
    /\ status.st.message = <<"Generic", "(", Quote, "disk", "full", Quote, ")">>

IsSendFailure(i) == IsExt(i, "send")

\* C5 as stated: a channel-send failure handed to log_and_escalate_status!
\* returns a Status of code Unknown whose message contains the word mpsc and
\* the payload type's name.
C5_Original ==
    \A i \in 1..Depth :
        (macros[i] = "status" /\ IsSendFailure(i) /\ Done(i)) =>
            /\ fr[i].ret.err.code = "Unknown"
            /\ Contains(fr[i].ret.err.message, "mpsc")
            /\ Contains(fr[i].ret.err.message, fr[i].got.err.ty)

\* C5 as amended: a channel-send failure handed to log_and_escalate_status!
\* returns a Status of code Unknown whose message is the Debug rendering of
\* the SendError itself, which is not the text of the Error::Send it would
\* convert into; the message naming mpsc and the payload type is that of
\* the Error::Send which log_and_escalate! returns.
C5_SendStatusIsDebugOfSendError ==
    \A i \in 1..Depth :
        (IsSendFailure(i) /\ Done(i)) =>
            /\ macros[i] = "status" =>
                /\ fr[i].ret.err.kind = "status"
                /\ fr[i].ret.err.code = "Unknown"
                /\ fr[i].ret.err.message = DebugExt(fr[i].got.err)
                /\ fr[i].ret.err.message[1] = "SendError"
                /\ fr[i].ret.err.message # into(FromSendError(fr[i].got.err)).message
            /\ macros[i] = "unified" =>
                /\ fr[i].ret.err.tag = "Send"
                /\ Contains(fr[i].ret.err.s, "mpsc")
                /\ Contains(fr[i].ret.err.s, fr[i].got.err.ty)
                /\ Contains(into(fr[i].ret.err).message, "mpsc")
                /\ Contains(into(fr[i].ret.err).message, fr[i].got.err.ty)

C5_Witness ==
    \E i \in 1..Depth :
        /\ macros[i] = "status"
        /\ IsSendFailure(i)
        /\ fr[i].got.err.ty = "ServiceRequest"
        /\ Done(i)
        /\ ~Contains(fr[i].ret.err.message, "mpsc")

\* C6 as stated: the Display rendering of every variant with every payload,
\* the empty string included, is a non-empty string.
C6_Original == rendered.set => Len(rendered.text) > 0

\* C6 as amended: the Display rendering is non-empty for every variant and
\* payload except Generic with the empty string, which renders as the empty
\* string, Generic rendering exactly its payload; Send and NetworkTypeUnknown
\* with the empty string render their label.
C6_RenderingNonEmptyButGeneric ==
    rendered.set =>
        /\ (Len(rendered.text) = 0) <=> (out.err = Generic(<< >>))
        /\ out.err.tag = "Generic" => rendered.text = out.err.s
        /\ out.err.tag \in {"Send", "NetworkTypeUnknown"} =>
            /\ Len(rendered.text) > Len(out.err.s)
            /\ SubSeq(rendered.text, Len(rendered.text) - Len(out.err.s) + 1,
                      Len(rendered.text)) = out.err.s

C6_Witness ==
    /\ rendered.set
    /\ out.err = Generic(<< >>)
    /\ rendered.text = << >>

\* The variant each external domain converts into.
DomainVariant(dom) ==
    CASE dom = "io" -> "Io"
      [] dom = "tonic" -> "TonicTransport"
      [] dom = "addr" -> "AddrParser"
      [] dom = "uri" -> "InvalidUri"
      [] dom = "send" -> "Send"

Domains == {"io", "tonic", "addr", "uri", "send"}

\* C7: a failure of each of the five external domains converts into the one
\* variant of its domain, distinct domains into distinct variants, and never
\* into Generic or one of the four plugin-protocol variants.
C7_DomainToOneVariant ==
    /\ \A d1, d2 \in Domains : DomainVariant(d1) = DomainVariant(d2) => d1 = d2
    /\ \A i \in 1..Depth :
        (macros[i] = "unified" /\ Failed(i) /\ Done(i)
            /\ fr[i].got.err.kind = "ext") =>
            /\ fr[i].got.err.dom \in Domains
            /\ fr[i].ret.err.kind = "error"
            /\ fr[i].ret.err.tag = DomainVariant(fr[i].got.err.dom)
            /\ fr[i].ret.err.tag \notin
                {"Generic", "NoTCPPortAvailable",
                 "GRPCHandshakeMagicCookieValueMismatch",
                 "ServiceIdDoesNotExist", "NetworkTypeUnknown"}
            /\ fr[i].got.err.dom # "send" => fr[i].ret.err.e = fr[i].got.err

C7_Witness ==
    \E i \in 1..Depth :
        /\ macros[i] = "unified"
        /\ IsExt(i, "uri")
        /\ Done(i)
        /\ fr[i].ret.err.tag = "InvalidUri"

\* The label each wrapped variant's rendering starts with.
Label(tag) ==
    CASE tag = "Io" -> <<"Error", "with", "IO:">>
      [] tag = "TonicTransport" -> <<"Error", "with", "tonic", "(gRPC)", "transport:">>
      [] tag = "AddrParser" ->
            <<"Error", "parsing", "string", "into", "a", "network", "address:">>
      [] tag = "InvalidUri" -> <<"Invalid", "Uri:">>

Wrapped == {"Io", "TonicTransport", "AddrParser", "InvalidUri"}

\* The top-level caller received the Error that the leaf failure of an
\* external domain was converted into.
Converted ==
    /\ macros[1] = "unified"
    /\ out.tag = "Err"
    /\ fr[Depth].got.err.kind = "ext"

\* C8: the rendering of the Error a failure of a wrapped domain (Io,
\* TonicTransport, AddrParser, InvalidUri) converts into is the domain's
\* label followed by the failure's Debug rendering, never its Display one.
C8_WrappedRendersLabelThenDebug ==
    (rendered.set /\ Converted /\ out.err.tag \in Wrapped) =>
        /\ rendered.text = Label(out.err.tag) \o DebugExt(out.err.e)
        /\ rendered.text # Label(out.err.tag) \o DisplayExt(out.err.e)

\* C9: the Error a channel-send failure converts into is Send with exactly
\* "unable to send <type name> on a mpsc channel": it is the same, and
\* renders and converts into a Status the same, for every payload value of
\* the type.
C9_SendConversionDropsPayload ==
    (macros[1] = "unified" /\ IsSendFailure(Depth) /\ Done(Depth)) =>
        LET e == fr[Depth].got.err
            r == fr[Depth].ret.err
            msg == <<"unable", "to", "send", e.ty, "on", "a", "mpsc", "channel">>
        IN  /\ r = Send(msg)
            /\ \A e2 \in SendErrors : e2.ty = e.ty => ErrorFrom(e2) = r
            /\ rendered.set =>
                rendered.text =
                    <<"Error", "sending", "on", "a", "mpsc", "channel:">> \o msg
            /\ status.set =>
                status.st =
                    MkStatus("Unknown", <<"Send", "(", Quote>> \o msg \o <<Quote, ")">>)

C9_Witness ==
    /\ macros[1] = "unified"
    /\ IsSendFailure(Depth)
    /\ fr[Depth].got.err.payload = MaxPayload
    /\ rendered.set
    /\ status.set

\* The functions that have handed a failure on.
Escalated == {i \in 1..Depth : Failed(i) /\ Done(i)}

\* C10: a failure crossing the chain is logged once by each function it has
\* crossed, innermost first, each entry in the sink when its function has
\* returned; a function the failure has not crossed, or whose call
\* succeeded, has logged nothing; the outermost caller receives one failure.
C10_OneEntryPerFrame ==
    /\ Len(log) = Cardinality(Escalated)
    /\ \A k \in 1..Len(log) :
        /\ (Depth - k + 1) \in Escalated
        /\ LoggedBy(log[k], Depth - k + 1)
        /\ log[k].level = "error"
    /\ \A i \in 1..Depth : LogCount(i) = (IF i \in Escalated THEN 1 ELSE 0)
    /\ out.tag = "Err" => (Len(log) = Depth /\ Escalated = 1..Depth)
    /\ out.tag = "Ok" => Len(log) = 0
    /\ Failed(Depth) /\ Done(1) => out.tag = "Err"

C10_Witness ==
    /\ Depth = MaxDepth
    /\ macros[1] = "status"
    /\ macros[Depth] = "unified"
    /\ out.tag = "Err"
    /\ Len(log) = MaxDepth

=============================================================================
